---- MODULE Spec2Model ----
(***************************************************************************)
(* Model of submit_to_app_store.py: one run of the release pipeline        *)
(* (main) against the App Store Connect API.  Every HTTP attempt of        *)
(* make_api_request is one step; the API's answers are chosen              *)
(* nondeterministically.  Time is counted in seconds.                      *)
(***************************************************************************)
EXTENDS Integers, Sequences, FiniteSets, TLC

\* ---------------------------------------------------------------- bounds
MaxVerLen == 2        \* longest version string given on the command line
MaxWaitMinutes == 1   \* max_wait_minutes of wait_for_build_processing
MaxBuilds == 2        \* most builds in one answer of the builds listing
MaxLocs == 2          \* most localizations attached to a version

\* ------------------------------------------------------------- constants
RETRIES == 3
DefaultRetryAfter == 60
BackoffUnit == 5
SearchSleep == 5
PollSleepSlow == 30
PollSleepFast == 5
TokenMinutes == 19
LongRetryAfter == 1200

Chars == {"1", "+"}
VersionStrings == UNION {[1..n -> Chars] : n \in 1..MaxVerLen}
BuildLabels == {<<"1">>, <<"2">>}
ProcessingStates == {"PROCESSING", "VALID", "INVALID", "UNKNOWN"}
SubmittedStates ==
  {"WAITING_FOR_REVIEW", "IN_REVIEW", "PENDING_DEVELOPER_RELEASE", "READY_FOR_SALE"}
AppStoreStates == SubmittedStates \cup {"PREPARE_FOR_SUBMISSION", "UNKNOWN"}
RetryAfterValues == {0, 2, DefaultRetryAfter, LongRetryAfter}
IdNames == <<"b1", "b2", "b3", "b4", "b5">>
Statuses == {"ok", "rate", "err", "timeout", "neterr"}
Kinds == {"apps", "builds", "lookup", "create", "link", "locs", "locPatch",
          "subCreate", "subItem", "subConfirm", "legacy"}

Min(a, b) == IF a < b THEN a ELSE b

\* HTTP method each call site passes to make_api_request
Method(kind) ==
  CASE kind \in {"apps", "builds", "lookup", "locs"} -> "GET"
    [] kind \in {"create", "subCreate", "subItem", "legacy"} -> "POST"
    [] kind \in {"link", "locPatch", "subConfirm"} -> "PATCH"

Mutating == {k \in Kinds : Method(k) \in {"POST", "PATCH"}}

\* Python truthiness of an optional string: <<>> is None, <<s>> is the string s
Truthy(o) == o # <<>> /\ o[1] # <<>>

\* ------------------------------------------------------- version parsing
PlusCount(s) == Cardinality({i \in DOMAIN s : s[i] = "+"})
FirstPlus(s) == CHOOSE i \in DOMAIN s : s[i] = "+" /\ \A j \in 1..(i-1) : s[j] # "+"

\* ------------------------------------------------------- response bodies
BuildLists ==
  UNION {{[i \in 1..n |-> [id |-> IdNames[i], version |-> f[i][1],
                           processingState |-> f[i][2]]] :
            f \in [1..n -> BuildLabels \X ProcessingStates]} : n \in 0..MaxBuilds}

Bodies(kind) ==
  CASE kind = "apps" -> {<<>>, <<[id |-> "app1"]>>}
    [] kind = "builds" -> BuildLists
    [] kind = "lookup" ->
         {<<>>} \cup {<<[id |-> "v1", appStoreState |-> s]>> : s \in AppStoreStates}
    [] kind = "create" -> {<<[id |-> "v2"]>>}
    [] kind = "locs" -> {[i \in 1..n |-> [id |-> IdNames[i]]] : n \in 0..MaxLocs}
    [] kind = "subCreate" -> {<<[id |-> "s1"]>>}
    [] OTHER -> {<<[id |-> "x"]>>}

\* Retry-After values a 429 may carry; other answers carry none
RetryAfterFor(r) == IF r = "rate" THEN RetryAfterValues ELSE {0}

VARIABLES args, environ, pc, exitCode, call, result, sent, nullCalls,
          ncalls, nok, versionsCreated, elapsed, seen, wait_log, version_part, build_number,
          app_id, build_id, version_id, found_state, link_ok, notes_ok,
          submission_success, summary, total_count, loc_i, success_count,
          raised, last_state, last_version, remote, submissionsCreated, run, prev

inputs == <<args, environ, run, prev>>
helper == <<call, result>>
net == <<sent, nullCalls, ncalls, nok, versionsCreated, remote, submissionsCreated>>
waitv == <<elapsed, seen, wait_log, last_state, last_version>>
parsed == <<version_part, build_number, raised>>
ids == <<app_id, build_id, version_id, found_state>>
outs == <<link_ok, notes_ok, submission_success, summary>>
locv == <<total_count, loc_i, success_count>>
vars == <<args, environ, pc, exitCode, call, result, sent, nullCalls,
          ncalls, nok, versionsCreated, elapsed, seen, wait_log, version_part, build_number,
          app_id, build_id, version_id, found_state, link_ok, notes_ok,
          submission_success, summary, total_count, loc_i, success_count,
          raised, last_state, last_version, remote, submissionsCreated, run, prev>>

MaxWaitSeconds == MaxWaitMinutes * 60

\* seconds a token stays valid after generate_jwt_token made it
TokenLifetime == TokenMinutes * 60
Sleep(t, d) == Min(t + d, MaxWaitSeconds + 1)

\* the locals of one make_api_request call: the loop variable, and what the
\* call has sent and received so far (last: the class of the latest answer,
\* slept: the seconds slept after it, age: the seconds between the generation
\* of the call's token and its latest request)
NewCall(kind) ==
  [kind |-> kind, attempt |-> 0, n429 |-> 0, nfail |-> 0, nsent |-> 0,
   last |-> "none", slept |-> 0, age |-> 0]

\* calls counted per kind; the polls of the build listing count as one
Bump(f, k) == [f EXCEPT ![k] = IF k = "builds" THEN 1 ELSE @ + 1]

Init ==
  /\ args \in [version : VersionStrings, dry_run : BOOLEAN, bundle_id : BOOLEAN]
  /\ environ \in [credentials : BOOLEAN, key_file : BOOLEAN]
  /\ pc = "start"
  /\ exitCode = -1
  /\ call = NewCall("apps")
  /\ result = "unset"
  /\ sent = {}
  /\ nullCalls = {}
  /\ ncalls = [k \in Kinds |-> 0]
  /\ nok = [k \in Kinds |-> 0]
  /\ versionsCreated = 0
  /\ elapsed = 0
  /\ seen = FALSE
  /\ wait_log = ""
  /\ version_part = <<>>
  /\ build_number = <<>>
  /\ app_id = "unset"
  /\ build_id = "unset"
  /\ version_id = "unset"
  /\ found_state = "unset"
  /\ link_ok = "unset"
  /\ notes_ok = "unset"
  /\ submission_success = "unset"
  /\ summary = FALSE
  /\ total_count = 0
  /\ loc_i = 0
  /\ success_count = 0
  /\ raised = "none"
  /\ last_state = "None"
  /\ last_version = <<>>
  /\ remote = "unknown"
  /\ submissionsCreated = 0
  /\ run = 1
  /\ prev = [versions |-> 0, submissions |-> 0]

Exit(code) == pc' = "exit" /\ exitCode' = code

\* the except clauses around main(): the status the process ends with when
\* the exception exc reaches the top level
HandlerStatus_AllOne(exc) == 1

HandlerStatus(exc) == IF exc = "KeyboardInterrupt" THEN 130 ELSE 1

\* variant: the key file is not looked for before the requests
StartCall_NoKeyCheck(kind) ==
  /\ pc' = "request"
  /\ call' = NewCall(kind)
  /\ UNCHANGED <<exitCode, result>>

\* entry of make_api_request: generate_jwt_token, then the attempt loop
StartCall(kind) ==
  IF ~environ.key_file
  THEN Exit(1) /\ UNCHANGED helper
  ELSE /\ pc' = "request"
       /\ call' = NewCall(kind)
       /\ UNCHANGED <<exitCode, result>>

\* ------------------------------------------------------ make_api_request
\* variant: a 429 answer does not end the loop
Outcome_RateFree(attempt, r) ==
  CASE r = "ok" -> "json"
    [] r = "rate" -> "continue"
    [] OTHER -> IF attempt < RETRIES - 1 THEN "continue" ELSE "none"

\* variant: an error answer is never retried
Outcome_NoRetry(attempt, r) ==
  CASE r = "ok" -> "json"
    [] r = "rate" -> IF attempt + 1 < RETRIES THEN "continue" ELSE "none"
    [] OTHER -> "none"

\* what one iteration of `for attempt in range(retries)` does with answer r:
\* "json" returns the parsed body, "none" returns None, "continue" goes on
\* with the next iteration
Outcome(attempt, r) ==
  CASE r = "ok" -> "json"
    [] r = "rate" -> IF attempt + 1 < RETRIES THEN "continue" ELSE "none"
    [] OTHER -> IF attempt < RETRIES - 1 THEN "continue" ELSE "none"

\* seconds slept in that iteration (ra: the Retry-After value of a 429)
SleepFor(attempt, r, ra) ==
  CASE r = "ok" -> 0
    [] r = "rate" -> ra
    [] OTHER -> IF attempt < RETRIES - 1 THEN BackoffUnit * (attempt + 1) ELSE 0

\* the class of an answer: a status below 400, a 429, or a failure
AnswerClass(r) ==
  CASE r = "ok" -> "ok"
    [] r = "rate" -> "rate"
    [] OTHER -> "fail"

\* whether the server may have applied a request it answered with r
MayApply(r) ==
  CASE r = "ok" -> {TRUE}
    [] r = "timeout" -> BOOLEAN
    [] OTHER -> {FALSE}

\* what the App Store knows of the version after it applied a request
RemoteAfter(kind, applied, r) ==
  IF ~applied THEN r
  ELSE CASE kind \in {"subConfirm", "legacy"} -> "submitted"
         [] kind = "create" /\ r = "unknown" -> "exists"
         [] OTHER -> r

\* the listings the version lookup can get: a version this client created is
\* listed, and one it submitted is listed in a submitted state
LookupBodies(r) ==
  CASE r = "exists" -> Bodies("lookup") \ {<<>>}
    [] r = "submitted" ->
         {<<[id |-> "v1", appStoreState |-> st]>> : st \in SubmittedStates}
    [] OTHER -> Bodies("lookup")

Attempt ==
  /\ pc = "request"
  /\ \E r \in Statuses :
       \E ra \in RetryAfterFor(r), applied \in MayApply(r) :
         LET out == Outcome(call.attempt, r)
             d == SleepFor(call.attempt, r, ra)
         IN /\ call' = [call EXCEPT !.attempt = IF out = "continue" THEN @ + 1 ELSE @,
                                    !.nsent = @ + 1,
                                    !.n429 = IF r = "rate" THEN @ + 1 ELSE @,
                                    !.nfail = IF r \in {"err", "timeout", "neterr"}
                                              THEN @ + 1 ELSE @,
                                    !.last = AnswerClass(r),
                                    !.slept = d,
                                    !.age = IF out = "continue" THEN Min(@ + d, TokenLifetime) ELSE 0]
            /\ sent' = sent \cup {call.kind}
            /\ versionsCreated' =
                 IF call.kind = "create" /\ applied THEN versionsCreated + 1
                 ELSE versionsCreated
            /\ submissionsCreated' =
                 IF call.kind \in {"subCreate", "legacy"} /\ applied
                 THEN submissionsCreated + 1
                 ELSE submissionsCreated
            /\ remote' = RemoteAfter(call.kind, applied, remote)
            /\ elapsed' = IF call.kind = "builds" THEN Sleep(elapsed, d) ELSE elapsed
            /\ result' = IF out = "continue" THEN result ELSE out
            /\ nullCalls' = IF out = "none" THEN nullCalls \cup {call.kind}
                            ELSE nullCalls
            /\ ncalls' = IF call.nsent = 0 THEN Bump(ncalls, call.kind) ELSE ncalls
            /\ nok' = IF out = "json" THEN Bump(nok, call.kind) ELSE nok
            /\ pc' = IF out = "continue" THEN "request" ELSE "return"
  /\ UNCHANGED <<inputs, exitCode, seen, wait_log, last_state, last_version, parsed, ids, outs,
                 locv>>

Returned(kind) == pc = "return" /\ call.kind = kind

\* the `data` member of the document make_api_request handed back
Parsed(kind) == IF result = "json" THEN Bodies(kind) ELSE {<<>>}

\* ------------------------------------------------------------------ main
CheckEnvironment ==
  /\ pc = "start"
  /\ IF environ.credentials THEN pc' = "parse" /\ UNCHANGED exitCode ELSE Exit(1)
  /\ UNCHANGED <<inputs, helper, net, waitv, parsed, ids, outs, locv>>

\* version_string.split('+'): two targets, so any other number of parts raises
\* ValueError, which the top level reports with exit code 1
ParseVersion ==
  /\ pc = "parse"
  /\ LET s == args.version IN
       CASE PlusCount(s) = 0 ->
              /\ version_part' = s
              /\ build_number' = <<>>
              /\ pc' = "bundle"
              /\ UNCHANGED <<exitCode, raised>>
         [] PlusCount(s) = 1 ->
              /\ version_part' = SubSeq(s, 1, FirstPlus(s) - 1)
              /\ build_number' = <<SubSeq(s, FirstPlus(s) + 1, Len(s))>>
              /\ pc' = "bundle"
              /\ UNCHANGED <<exitCode, raised>>
         [] OTHER ->
              /\ raised' = "ValueError"
              /\ Exit(HandlerStatus("ValueError"))
              /\ UNCHANGED <<version_part, build_number>>
  /\ UNCHANGED <<inputs, helper, net, waitv, ids, outs, locv>>

DetectBundleId ==
  /\ pc = "bundle"
  /\ IF args.bundle_id THEN pc' = "find_app" /\ UNCHANGED exitCode ELSE Exit(1)
  /\ UNCHANGED <<inputs, helper, net, waitv, parsed, ids, outs, locv>>

FindAppByBundleId ==
  /\ pc = "find_app"
  /\ StartCall("apps")
  /\ UNCHANGED <<inputs, net, waitv, parsed, ids, outs, locv>>

FindAppReturn ==
  /\ Returned("apps")
  /\ \E data \in Parsed("apps") :
       IF result = "none" \/ data = <<>>
       THEN app_id' = "None" /\ Exit(1)
       ELSE app_id' = data[1].id /\ pc' = "wait" /\ UNCHANGED exitCode
  /\ UNCHANGED <<inputs, helper, net, waitv, parsed, build_id, version_id,
                 found_state, outs, locv>>

\* ---------------------------------------------- wait_for_build_processing
\* index of the first listed build whose version label is the expected build
\* number, 0 when there is none
MatchIndex(data, expected) ==
  LET hits == {i \in DOMAIN data : data[i].version = expected}
  IN IF hits = {} THEN 0 ELSE CHOOSE i \in hits : \A j \in hits : i <= j

\* variant: the loop takes the first listed build whatever its label
TargetIndex_Latest(data, expected) == 1

\* the build the loop looks at: the expected one, or the first of the listing
TargetIndex(data, expected) ==
  IF Truthy(expected) THEN MatchIndex(data, expected[1]) ELSE 1

TimedOut(t) == t > MaxWaitSeconds

\* variant: the loop does not sleep between polls
PollSleep_Zero(state) == 0

\* time.sleep at the end of an iteration that saw the target build
PollSleep(state) == IF state # "PROCESSING" THEN PollSleepSlow ELSE PollSleepFast

\* variant: an INVALID build is polled again like a build in processing
WaitVerdict_InvalidWaits(state, t) ==
  CASE state = "VALID" -> "ready"
    [] OTHER -> IF TimedOut(t) THEN "timeout" ELSE "again"

\* what the loop does with the processing state of the target build after t
\* seconds: return its id, return None (failed or timed out), or poll again
WaitVerdict(state, t) ==
  CASE state = "VALID" -> "ready"
    [] state = "INVALID" -> "failed"
    [] OTHER -> IF TimedOut(t) THEN "timeout" ELSE "again"

\* variant: the wait polls the API also in a dry run
WaitForBuildProcessing_NoDryRun ==
  /\ pc = "wait"
  /\ elapsed' = 0
  /\ StartCall("builds")
  /\ UNCHANGED <<inputs, net, seen, wait_log, last_state, last_version, parsed, ids, outs, locv>>

WaitForBuildProcessing ==
  /\ pc = "wait"
  /\ IF args.dry_run
     THEN /\ build_id' = "dry-run-build-id"
          /\ pc' = "version"
          /\ UNCHANGED <<exitCode, helper, elapsed>>
     ELSE /\ elapsed' = 0
          /\ StartCall("builds")
          /\ UNCHANGED build_id
  /\ UNCHANGED <<inputs, net, seen, wait_log, last_state, last_version, parsed, app_id,
                 version_id, found_state, outs, locv>>

BuildsReturn ==
  /\ Returned("builds")
  /\ \E data \in Parsed("builds") :
     LET t == TargetIndex(data, build_number)
     IN IF result = "none" \/ data = <<>>
        THEN /\ wait_log' = "no_builds"
             /\ build_id' = "None"
             /\ Exit(1)
             /\ UNCHANGED <<call, elapsed, seen, last_state, last_version>>
        ELSE IF t = 0
        THEN IF TimedOut(elapsed)
             THEN /\ wait_log' = "never_appeared"
                  /\ build_id' = "None"
                  /\ Exit(1)
                  /\ UNCHANGED <<call, elapsed, seen, last_state, last_version>>
             ELSE /\ elapsed' = Sleep(elapsed, SearchSleep)
                  /\ StartCall("builds")
                  /\ UNCHANGED <<build_id, seen, wait_log, last_state, last_version>>
        ELSE LET state == data[t].processingState
                 verdict == WaitVerdict(state, elapsed)
             IN
             /\ seen' = TRUE
             /\ last_state' = state
             /\ last_version' = <<data[t].version>>
             /\ CASE verdict = "ready" ->
                       /\ build_id' = data[t].id
                       /\ pc' = "version"
                       /\ elapsed' = 0
                       /\ UNCHANGED <<exitCode, call, wait_log>>
                  [] verdict = "failed" ->
                       /\ wait_log' = "invalid"
                       /\ build_id' = "None"
                       /\ Exit(1)
                       /\ UNCHANGED <<call, elapsed>>
                  [] verdict = "timeout" ->
                       /\ wait_log' = "still_processing"
                       /\ build_id' = "None"
                       /\ Exit(1)
                       /\ UNCHANGED <<call, elapsed>>
                  [] OTHER ->
                       /\ elapsed' = Sleep(elapsed, PollSleep(state))
                       /\ StartCall("builds")
                       /\ UNCHANGED <<build_id, wait_log>>
  /\ UNCHANGED <<inputs, result, net, parsed, app_id, version_id, found_state,
                 outs, locv>>

\* --------------------------------------------------- get_or_create_version
\* variant: the list of submitted states lacks IN_REVIEW
AlreadySubmitted_NoInReview(state) == state \in SubmittedStates \ {"IN_REVIEW"}

AlreadySubmitted(state) == state \in SubmittedStates

GetOrCreateVersion ==
  /\ pc = "version"
  /\ StartCall("lookup")
  /\ UNCHANGED <<inputs, net, waitv, parsed, ids, outs, locv>>

\* the answer of the lookup; main exits 0 when no identifier comes back
LookupReturn ==
  /\ Returned("lookup")
  /\ \E data \in (IF result = "json" THEN LookupBodies(remote) ELSE {<<>>}) :
     IF result = "none"
     THEN /\ version_id' = "None"
          /\ Exit(0)
          /\ UNCHANGED <<call, found_state>>
     ELSE IF data # <<>>
     THEN /\ found_state' = data[1].appStoreState
          /\ IF AlreadySubmitted(data[1].appStoreState)
             THEN version_id' = "None" /\ Exit(0)
             ELSE /\ version_id' = data[1].id
                  /\ pc' = "link"
                  /\ UNCHANGED exitCode
          /\ UNCHANGED call
     ELSE IF args.dry_run
     THEN /\ version_id' = "dry-run-version-id"
          /\ pc' = "link"
          /\ UNCHANGED <<exitCode, call, found_state>>
     ELSE /\ StartCall("create")
          /\ UNCHANGED <<version_id, found_state>>
  /\ UNCHANGED <<inputs, result, net, waitv, parsed, app_id, build_id, outs, locv>>

CreateReturn ==
  /\ Returned("create")
  /\ \E data \in Parsed("create") :
       IF result = "none"
       THEN version_id' = "None" /\ Exit(0)
       ELSE version_id' = data[1].id /\ pc' = "link" /\ UNCHANGED exitCode
  /\ UNCHANGED <<inputs, helper, net, waitv, parsed, app_id, build_id,
                 found_state, outs, locv>>

\* --------------------------------------------------- link_build_to_version
\* variant: the link request is sent also in a dry run
LinkBuildToVersion_NoDryRun ==
  /\ pc = "link"
  /\ StartCall("link")
  /\ UNCHANGED <<inputs, net, waitv, parsed, ids, outs, locv>>

LinkBuildToVersion ==
  /\ pc = "link"
  /\ IF args.dry_run
     THEN /\ link_ok' = "True"
          /\ pc' = "notes"
          /\ UNCHANGED <<exitCode, helper>>
     ELSE StartCall("link") /\ UNCHANGED link_ok
  /\ UNCHANGED <<inputs, net, waitv, parsed, ids, notes_ok, submission_success,
                 summary, locv>>

\* variant: main goes on to the release notes after a failed link
LinkReturn_NoGate ==
  /\ Returned("link")
  /\ link_ok' = IF result = "none" THEN "False" ELSE "True"
  /\ pc' = "notes"
  /\ UNCHANGED <<inputs, exitCode, helper, net, waitv, parsed, ids, notes_ok,
                 submission_success, summary, locv>>

\* variant: the result of the link request is not looked at
LinkReturn_IgnoreNull ==
  /\ Returned("link")
  /\ link_ok' = "True"
  /\ pc' = "notes"
  /\ UNCHANGED <<inputs, exitCode, helper, net, waitv, parsed, ids, notes_ok,
                 submission_success, summary, locv>>

LinkReturn ==
  /\ Returned("link")
  /\ IF result = "none"
     THEN link_ok' = "False" /\ Exit(1)
     ELSE link_ok' = "True" /\ pc' = "notes" /\ UNCHANGED exitCode
  /\ UNCHANGED <<inputs, helper, net, waitv, parsed, ids, notes_ok,
                 submission_success, summary, locv>>

\* ------------------------------------------- add_release_notes_all_locales
\* variant: success needs every localization updated
NotesVerdict_AllRequired(success, total) ==
  IF success = total THEN "True" ELSE "False"

\* the verdict after the loop over the localizations
NotesVerdict(success, total) ==
  IF success = total THEN "True" ELSE IF success > 0 THEN "True" ELSE "False"

AddReleaseNotesAllLocales ==
  /\ pc = "notes"
  /\ IF args.dry_run
     THEN /\ notes_ok' = "True"
          /\ pc' = "submit"
          /\ UNCHANGED <<exitCode, helper>>
     ELSE StartCall("locs") /\ UNCHANGED notes_ok
  /\ UNCHANGED <<inputs, net, waitv, parsed, ids, link_ok, submission_success,
                 summary, locv>>

LocalizationsReturn ==
  /\ Returned("locs")
  /\ \E data \in Parsed("locs") :
     IF result = "none" \/ data = <<>>
     THEN /\ notes_ok' = "False"
          /\ Exit(1)
          /\ UNCHANGED <<call, locv>>
     ELSE /\ total_count' = Len(data)
          /\ success_count' = 0
          /\ loc_i' = 1
          /\ StartCall("locPatch")
          /\ UNCHANGED notes_ok
  /\ UNCHANGED <<inputs, result, net, waitv, parsed, ids, link_ok,
                 submission_success, summary>>

\* one pass of `for loc in localizations` after its PATCH came back
LocPatchReturn ==
  /\ Returned("locPatch")
  /\ LET sc == IF result = "json" THEN success_count + 1 ELSE success_count IN
       /\ success_count' = sc
       /\ IF loc_i < total_count
          THEN /\ loc_i' = loc_i + 1
               /\ StartCall("locPatch")
               /\ UNCHANGED notes_ok
          ELSE /\ notes_ok' = NotesVerdict(sc, total_count)
               /\ IF NotesVerdict(sc, total_count) = "True"
                  THEN pc' = "submit" /\ UNCHANGED exitCode
                  ELSE Exit(1)
               /\ UNCHANGED <<call, loc_i>>
  /\ UNCHANGED <<inputs, result, net, waitv, parsed, ids, link_ok,
                 submission_success, summary, total_count>>

\* -------------------------------------------------------- submit_for_review
SubmitForReview ==
  /\ pc = "submit"
  /\ IF args.dry_run
     THEN /\ submission_success' = "True"
          /\ pc' = "summary"
          /\ UNCHANGED <<exitCode, helper>>
     ELSE StartCall("subCreate") /\ UNCHANGED submission_success
  /\ UNCHANGED <<inputs, net, waitv, parsed, ids, link_ok, notes_ok, summary, locv>>

SubCreateReturn ==
  /\ Returned("subCreate")
  /\ IF result = "none" THEN StartCall("legacy") ELSE StartCall("subItem")
  /\ UNCHANGED <<inputs, result, net, waitv, parsed, ids, outs, locv>>

\* variant: a failed attach falls back to the legacy endpoint
SubItemReturn_Fallback ==
  /\ Returned("subItem")
  /\ IF result = "none" THEN StartCall("legacy") ELSE StartCall("subConfirm")
  /\ UNCHANGED <<inputs, result, net, waitv, parsed, ids, outs, locv>>

SubItemReturn ==
  /\ Returned("subItem")
  /\ IF result = "none"
     THEN /\ submission_success' = "False"
          /\ pc' = "summary"
          /\ UNCHANGED <<exitCode, call>>
     ELSE StartCall("subConfirm") /\ UNCHANGED submission_success
  /\ UNCHANGED <<inputs, result, net, waitv, parsed, ids, link_ok, notes_ok,
                 summary, locv>>

SubConfirmReturn ==
  /\ Returned("subConfirm")
  /\ submission_success' = IF result = "json" THEN "True" ELSE "False"
  /\ pc' = "summary"
  /\ UNCHANGED <<inputs, exitCode, helper, net, waitv, parsed, ids, link_ok,
                 notes_ok, summary, locv>>

\* submit_for_review_legacy
LegacyReturn ==
  /\ Returned("legacy")
  /\ submission_success' = IF result = "json" THEN "True" ELSE "False"
  /\ pc' = "summary"
  /\ UNCHANGED <<inputs, exitCode, helper, net, waitv, parsed, ids, link_ok,
                 notes_ok, summary, locv>>

\* the closing report of main; the process then ends with status 0
Summary ==
  /\ pc = "summary"
  /\ summary' = TRUE
  /\ Exit(0)
  /\ UNCHANGED <<inputs, helper, net, waitv, parsed, ids, link_ok, notes_ok,
                 submission_success, locv>>

\* Ctrl-C while main() runs: KeyboardInterrupt unwinds to the top level,
\* which ends the process
Interrupt ==
  /\ pc # "exit"
  /\ raised' = "KeyboardInterrupt"
  /\ Exit(HandlerStatus("KeyboardInterrupt"))
  /\ UNCHANGED <<inputs, helper, net, waitv, version_part, build_number, ids,
                 outs, locv>>

\* the steps of one uninterrupted run
Pipeline ==
  \/ CheckEnvironment
  \/ ParseVersion
  \/ DetectBundleId
  \/ FindAppByBundleId
  \/ Attempt
  \/ FindAppReturn
  \/ WaitForBuildProcessing
  \/ BuildsReturn
  \/ GetOrCreateVersion
  \/ LookupReturn
  \/ CreateReturn
  \/ LinkBuildToVersion
  \/ LinkReturn
  \/ AddReleaseNotesAllLocales
  \/ LocalizationsReturn
  \/ LocPatchReturn
  \/ SubmitForReview
  \/ SubCreateReturn
  \/ SubItemReturn
  \/ SubConfirmReturn
  \/ LegacyReturn
  \/ Summary

Next == Pipeline \/ Interrupt

Spec == Init /\ [][Next]_vars

\* the same command line is run once more after the first run has ended; the
\* process starts afresh, the App Store keeps what the first run created
Restart ==
  /\ pc = "exit"
  /\ run = 1
  /\ run' = 2
  /\ prev' = [versions |-> versionsCreated, submissions |-> submissionsCreated]
  /\ pc' = "start"
  /\ exitCode' = -1
  /\ call' = NewCall("apps")
  /\ result' = "unset"
  /\ sent' = {}
  /\ nullCalls' = {}
  /\ ncalls' = [k \in Kinds |-> 0]
  /\ nok' = [k \in Kinds |-> 0]
  /\ elapsed' = 0
  /\ seen' = FALSE
  /\ wait_log' = ""
  /\ last_state' = "None"
  /\ last_version' = <<>>
  /\ version_part' = <<>>
  /\ build_number' = <<>>
  /\ raised' = "none"
  /\ app_id' = "unset"
  /\ build_id' = "unset"
  /\ version_id' = "unset"
  /\ found_state' = "unset"
  /\ link_ok' = "unset"
  /\ notes_ok' = "unset"
  /\ submission_success' = "unset"
  /\ summary' = FALSE
  /\ total_count' = 0
  /\ loc_i' = 0
  /\ success_count' = 0
  /\ UNCHANGED <<args, environ, versionsCreated, remote, submissionsCreated>>

RerunInit ==
  /\ Init
  /\ args = [version |-> <<"1">>, dry_run |-> FALSE, bundle_id |-> TRUE]
  /\ environ = [credentials |-> TRUE, key_file |-> TRUE]

RerunNext == Pipeline \/ Restart

\* two runs of the pipeline on the same version, neither interrupted
RerunSpec == RerunInit /\ [][RerunNext]_vars

\* the interpreter keeps executing the single thread until the process exits
FairSpec == Spec /\ WF_vars(Next)

TypeOK ==
  /\ pc \in {"start", "parse", "bundle", "find_app", "request", "return", "wait",
             "version", "link", "notes", "submit", "summary", "exit"}
  /\ exitCode \in {-1, 0, 1, 130}
  /\ raised \in {"none", "ValueError", "KeyboardInterrupt"}
  /\ call.kind \in Kinds
  /\ call.attempt \in 0..(RETRIES - 1)
  /\ sent \subseteq Kinds
  /\ nullCalls \subseteq Kinds
  /\ elapsed \in 0..(MaxWaitSeconds + 1)
  /\ (pc = "exit") = (exitCode # -1)

\* ================================================================ claims
\* the result variable of the stage function that issues calls of this kind
StageResult(k) ==
  CASE k = "apps" -> app_id
    [] k = "builds" -> build_id
    [] k \in {"lookup", "create"} -> version_id
    [] k = "link" -> link_ok
    [] k \in {"locs", "locPatch"} -> notes_ok
    [] OTHER -> submission_success

Failure == {"None", "False"}
AppFound == app_id \notin {"unset", "None"}

\* C1 (as claimed): a 429 answer consumes no retry slot, so while the helper
\* is looping the number of consumed attempts equals the number of error
\* answers (status >= 400 other than 429, timeout, network error) it got.
C1_RateLimitKeepsSlots == pc = "request" => call.attempt = call.nfail

\* C2: a call whose attempts all end in an error answer sends exactly RETRIES
\* requests and then returns None; a call returns a parsed response exactly
\* when its latest request was answered with a status below 400, and sends
\* nothing after that.
C2_ExactlyRetriesThenNone ==
  /\ (pc = "request" /\ call.n429 = 0) =>
        (call.nsent = call.nfail /\ call.nfail < RETRIES)
  /\ (pc = "return" /\ result = "none" /\ call.n429 = 0) =>
        (call.nsent = RETRIES /\ call.nfail = RETRIES)
  /\ (pc = "return" /\ result = "json") =>
        call.nsent = call.nfail + call.n429 + 1
  /\ (pc = "return" /\ call.nfail = call.nsent) => result = "none"

C2_Witness ==
  pc = "return" /\ result = "none" /\ call.n429 = 0 /\ call.nfail = RETRIES

\* C3 (as claimed): one run causes at most one version record to be created,
\* also when a create request timed out after the server applied it.
C3_AtMostOneVersionCreated == versionsCreated <= 1

\* C4: once the lookup found the version in a submitted state, the stage
\* returned no identifier, the run has ended with status 0, and no POST or
\* PATCH request was sent in the whole run.
C4_SubmittedVersionIsSkipped ==
  found_state \in SubmittedStates =>
    /\ version_id = "None"
    /\ pc = "exit"
    /\ exitCode = 0
    /\ \A k \in sent : Method(k) = "GET"

C4_Witness == found_state = "IN_REVIEW" /\ pc = "exit" /\ ~args.dry_run

\* C5: under FairSpec every make_api_request call returns, the build wait
\* returns, and the run reaches an exit.
C5_NeverBlocks ==
  /\ <>(pc = "exit")
  /\ (pc = "request") ~> (pc \in {"return", "exit"})
  /\ (call.kind = "builds" /\ pc \in {"request", "return"}) ~>
        (pc \in {"version", "exit"})

C5_Witness == pc = "exit" /\ wait_log \in {"never_appeared", "still_processing"}

\* C6 (as claimed): when a build number was requested and no listing ever
\* held a build with that label, the wait reports failure only after more
\* than the configured timeout has elapsed.
C6_AbsenceFailsOnlyAfterTimeout ==
  (Truthy(build_number) /\ ~seen /\ build_id = "None" /\ "builds" \notin nullCalls)
    => elapsed > MaxWaitSeconds

\* C7: a dry run sends GET requests only.
C7_DryRunSendsOnlyGet == args.dry_run => \A k \in sent : Method(k) = "GET"

C7_Witness == args.dry_run /\ summary /\ "lookup" \in sent

\* C8 (as claimed): a dry run that found the app ends with the summary.
C8_DryRunAlwaysReachesSummary ==
  (args.dry_run /\ AppFound /\ pc = "exit" /\ raised = "none") => summary

\* C8 (amended): in a dry run that found the app and is not interrupted, the build wait, the link,
\* the release notes and the submission end with a placeholder or success,
\* the run ends with status 0, and it prints the summary exactly when version
\* resolution returned an identifier; it returns none exactly when the lookup
\* failed or found the version in a submitted state.
C8_DryRunSummaryUnlessNoVersion ==
  (args.dry_run /\ AppFound) =>
    /\ build_id \in {"unset", "dry-run-build-id"}
    /\ link_ok \in {"unset", "True"}
    /\ notes_ok \in {"unset", "True"}
    /\ submission_success \in {"unset", "True"}
    /\ version_id = "None" =>
         ("lookup" \in nullCalls \/ found_state \in SubmittedStates)
    /\ ("lookup" \in nullCalls \/ found_state \in SubmittedStates) =>
         (Returned("lookup") \/ version_id = "None" \/ raised # "none")
    /\ (pc = "exit" /\ raised = "none") =>
         /\ exitCode = 0
         /\ summary = (version_id # "None")
         /\ summary => /\ build_id = "dry-run-build-id"
                       /\ version_id \in {"v1", "dry-run-version-id"}
                       /\ link_ok = "True"
                       /\ notes_ok = "True"
                       /\ submission_success = "True"

C8_Witness == args.dry_run /\ summary /\ version_id = "dry-run-version-id"

\* C9 (as claimed): the run ends with status 0 only after a successful
\* submission or when the version was found in a submitted state, and with
\* status 1 after every fatal stage failure.
FatalStageFailure ==
  \/ ~args.bundle_id
  \/ app_id = "None"
  \/ build_id = "None"
  \/ (version_id = "None" /\ found_state \notin SubmittedStates)
  \/ link_ok = "False"
  \/ notes_ok = "False"

C9_ExitCodes ==
  (pc = "exit" /\ raised = "none") =>
    /\ exitCode = 0 =>
         (submission_success = "True" \/ found_state \in SubmittedStates)
    /\ (environ.credentials /\ PlusCount(args.version) <= 1 /\ FatalStageFailure)
         => exitCode = 1

\* C10 (as claimed): whenever a call of a stage function returned None, the
\* stage function's result is its failure sentinel.
C10_NullIsFatalToEveryStep ==
  \A k \in nullCalls : StageResult(k) \in Failure \cup {"unset"}

\* C10 (amended): a null result ends the calling stage function with its
\* failure sentinel at once, except for a localization update (the stage
\* goes on and fails only when no update succeeded) and for the creation of
\* the review submission (the stage goes on with the legacy request only).
C10_NullIsFatalExceptPartial ==
  /\ \A k \in nullCalls \ {"locPatch", "subCreate"} :
       Returned(k) \/ StageResult(k) \in Failure \/ raised # "none"
  /\ ("locPatch" \in nullCalls /\ notes_ok # "unset") =>
       (notes_ok = "False") = (success_count = 0)
  /\ "subCreate" \in nullCalls =>
       /\ sent \cap {"subItem", "subConfirm"} = {}
       /\ Returned("subCreate") \/ call.kind = "legacy" \/ raised # "none"

C10_Witness ==
  /\ "subItem" \in nullCalls
  /\ "locPatch" \in nullCalls
  /\ submission_success = "False"

\* ------------------------------------------------------- claims C11..C20
SubmitKinds == {"subCreate", "subItem", "subConfirm", "legacy"}
RealIds == {IdNames[i] : i \in DOMAIN IdNames}

\* C11: the attach request is sent only after the creation of the submission
\* succeeded and the confirm request only after the attach succeeded; the
\* legacy endpoint is called exactly when the creation failed, and at most
\* once; a failed attach or confirm ends the stage with failure and no
\* further request.
C11_SubmissionProtocol ==
  /\ "subItem" \in sent => nok["subCreate"] = 1
  /\ "subConfirm" \in sent => nok["subItem"] = 1
  /\ "legacy" \in sent => "subCreate" \in nullCalls
  /\ ("subCreate" \in nullCalls /\ submission_success # "unset") => "legacy" \in sent
  /\ \A k \in SubmitKinds : ncalls[k] <= 1
  /\ "subItem" \in nullCalls =>
       /\ sent \cap {"subConfirm", "legacy"} = {}
       /\ Returned("subItem") \/ submission_success = "False" \/ raised # "none"
  /\ "subConfirm" \in nullCalls =>
       /\ "legacy" \notin sent
       /\ Returned("subConfirm") \/ submission_success = "False" \/ raised # "none"
  /\ submission_success = "True" =>
       (args.dry_run \/ nok["subConfirm"] = 1 \/ nok["legacy"] = 1)

C11_Witness ==
  "subCreate" \in nullCalls /\ nok["legacy"] = 1 /\ submission_success = "True"

\* C12: outside a dry run the stage makes one update call for every listed
\* localization, also after failed updates, and returns success exactly when
\* at least one update succeeded; a failed or empty listing returns failure.
C12_ReleaseNotesEveryLocale ==
  /\ ncalls["locPatch"] <= total_count
  /\ (notes_ok # "unset" /\ nok["locs"] = 1 /\ total_count > 0) =>
       /\ ncalls["locPatch"] = total_count
       /\ (notes_ok = "True") = (nok["locPatch"] >= 1)
  /\ (raised = "none" /\ ~Returned("locs") /\ ncalls["locs"] = 1 /\ total_count = 0)
       => (pc = "request" \/ notes_ok = "False")
  /\ notes_ok = "True" => (args.dry_run \/ nok["locPatch"] >= 1)

C12_Witness ==
  /\ total_count = 2
  /\ ncalls["locPatch"] = 2
  /\ nok["locPatch"] = 1
  /\ "locPatch" \in nullCalls
  /\ notes_ok = "True"

\* C13: a stage sends a request only after every earlier stage returned
\* success; a review-submission request needs a VALID build, a successful
\* link and a successful release-notes stage.
C13_StagesGateEachOther ==
  /\ "builds" \in sent => AppFound
  /\ sent \cap {"lookup", "create"} # {} =>
       (AppFound /\ build_id \notin {"unset", "None"})
  /\ "create" \in sent => nok["lookup"] = 1
  /\ "link" \in sent =>
       (build_id \notin {"unset", "None"} /\ version_id \notin {"unset", "None"})
  /\ sent \cap {"locs", "locPatch"} # {} => link_ok = "True"
  /\ sent \cap SubmitKinds # {} =>
       /\ build_id \in RealIds
       /\ last_state = "VALID"
       /\ version_id \in {"v1", "v2"}
       /\ link_ok = "True"
       /\ notes_ok = "True"

C13_Witness == "subConfirm" \in sent /\ "create" \in sent

\* C14 (as claimed): a version string with a `+` is split at it into version
\* part and build number and the run goes on with both; without a `+` the
\* version part is the whole string and the build number is absent.
C14_SplitAtPlus ==
  (environ.credentials /\ pc \notin {"start", "parse"}
     /\ raised # "KeyboardInterrupt") =>
    IF PlusCount(args.version) >= 1
    THEN /\ raised = "none"
         /\ version_part = SubSeq(args.version, 1, FirstPlus(args.version) - 1)
         /\ build_number =
              <<SubSeq(args.version, FirstPlus(args.version) + 1, Len(args.version))>>
    ELSE version_part = args.version /\ build_number = <<>>

\* C15: with a credential variable missing or the key file unusable the run
\* sends no HTTP request, and it ends with status 1.
C15_ConfigErrorsBeforeTraffic ==
  (~environ.credentials \/ ~environ.key_file) =>
    /\ sent = {}
    /\ pc \notin {"request", "return"}
    /\ (pc = "exit" /\ raised # "KeyboardInterrupt") => exitCode = 1

C15_Witness ==
  /\ ~environ.key_file
  /\ environ.credentials
  /\ pc = "exit"
  /\ raised = "none"
  /\ args.bundle_id
  /\ version_part # <<>>

\* C16: an interrupt can arrive in every state before the exit and ends the
\* process with status 130; another uncaught exception ends it with status 1.
C16_TopLevelExitCodes ==
  /\ pc # "exit" => ENABLED Interrupt
  /\ raised = "KeyboardInterrupt" => (pc = "exit" /\ exitCode = 130)
  /\ raised = "ValueError" => (pc = "exit" /\ exitCode = 1)
  /\ exitCode = 130 => raised = "KeyboardInterrupt"

C16_Witness ==
  /\ raised = "KeyboardInterrupt"
  /\ exitCode = 130
  /\ call.kind = "builds"
  /\ call.slept > 0

\* C17: a target build seen VALID makes the wait return a build identifier;
\* one seen INVALID makes it return failure at once; any other state makes
\* it poll again unless the timeout has passed, and then it returns failure.
C17_WaitVerdicts ==
  /\ last_state = "VALID" => (build_id \in RealIds /\ wait_log = "")
  /\ last_state = "INVALID" =>
       (build_id = "None" /\ wait_log = "invalid" /\ pc = "exit" /\ exitCode = 1)
  /\ (last_state \in {"PROCESSING", "UNKNOWN"} /\ build_id = "unset"
        /\ raised = "none") =>
       (pc \in {"request", "return"} /\ call.kind = "builds")
  /\ wait_log = "still_processing" =>
       /\ elapsed > MaxWaitSeconds
       /\ build_id = "None"
       /\ last_state \in {"PROCESSING", "UNKNOWN"}
  /\ (last_state \in {"PROCESSING", "UNKNOWN"} /\ build_id = "None") =>
       wait_log \in {"still_processing", "no_builds", "never_appeared"}
  /\ build_id \in RealIds => last_state = "VALID"

C17_Witness == wait_log = "still_processing" /\ last_state = "PROCESSING"

\* C19 (as claimed): after its k-th failed attempt, k below RETRIES, the call
\* sleeps 5*k seconds, and it does not sleep after its last attempt.
C19_LinearBackoff ==
  call.last = "fail" =>
    call.slept = IF call.nfail <= RETRIES - 1 THEN BackoffUnit * call.nfail ELSE 0

\* C20: one call sends at most RETRIES requests whatever the answers are,
\* and returns None when its last attempt is answered with 429.
C20_AtMostRetriesRequests ==
  /\ call.nsent <= RETRIES
  /\ call.nsent = call.n429 + call.nfail + (IF call.last = "ok" THEN 1 ELSE 0)
  /\ (call.last = "rate" /\ call.nsent = RETRIES) =>
       (result = "none" /\ pc # "request" /\ call.kind \in nullCalls)

C20_Witness ==
  /\ pc = "return"
  /\ call.last = "rate"
  /\ call.n429 = 1
  /\ call.nfail = 2
  /\ result = "none"

\* C18 (as claimed): a second run with the same version string creates no
\* second version record and no second review submission when the first run
\* had created one.
C18_RerunCreatesNothingTwice ==
  run = 2 =>
    /\ prev.versions >= 1 => versionsCreated = prev.versions
    /\ prev.submissions >= 1 => submissionsCreated = prev.submissions

\* ------------------------------------------------------- claims C21..C22
\* C21: with a build number requested, every build the wait looks at, and so
\* the build whose identifier it returns, carries that build number as its
\* version label.
C21_OnlyRequestedBuild ==
  Truthy(build_number) =>
    /\ last_state # "None" => last_version = build_number
    /\ build_id \in RealIds => last_version = build_number

C21_Witness ==
  /\ Truthy(build_number)
  /\ build_id = "b2"
  /\ last_version = build_number

\* C22 (as claimed): every request of a call is sent while the call's token,
\* generated once before the first attempt, is younger than its lifetime.
C22_TokenNeverExpired ==
  pc = "request" => call.age < TokenLifetime

====
